---- MODULE Spec2Model ----
(***************************************************************************)
(* A model of ha-ai-tasker: the Matrix chat listener and its per-message   *)
(* handler tasks (matrix_bot.py), and the /process and /summary HTTP       *)
(* handlers with the module-level bot object (main.py).                    *)
(*                                                                         *)
(* Every asyncio task is a record with a position `pc`; one action is the  *)
(* code a task runs between two awaits (asyncio runs that stretch without  *)
(* interleaving).  The outcome of every awaited external call (MCP         *)
(* connect, Runner.run, room_send, login) is drawn by the environment.     *)
(***************************************************************************)
EXTENDS Integers, Sequences, FiniteSets, TLC

(***************************************************************************)
(* Bounds of the model.                                                    *)
(***************************************************************************)
MaxEvents == 2       \* chat events delivered in SpecChat
MaxBufEvents == 11   \* chat events delivered in SpecBuf (one more than MAXLEN)
MaxTicks == 1        \* times the wall clock advances
MaxCtxEvents == 3     \* chat events delivered in SpecCtx
MaxArg == 4          \* largest max_messages argument tried in SpecCtx

(***************************************************************************)
(* Program constants.                                                      *)
(***************************************************************************)
MAXLEN == 10                 \* deque(maxlen=10)
ProcessMaxMessages == 5      \* get_conversation_context(max_messages=5, ...)
ChatMaxMessages == 10        \* get_conversation_context(max_messages=10, ...)

RoomId == "!configured"      \* self.room_id (MATRIX_ROOM_ID)
OtherRoom == "!other"
Rooms == {RoomId, OtherRoom}

\* Matrix user ids as token sequences, so that split(":") and replace("@")
\* are computed rather than assumed.
BotUser == <<"@", "bot", ":", "srv">>      \* self.client.user_id after login
Alice == <<"@", "alice", ":", "srv">>
Senders == {BotUser, Alice}
NoUsername == << >>                        \* SYSTEM_USERNAME unset (None)
SystemUsernames == {NoUsername, <<"alice">>}

ApologyText == "Sorry, I encountered an unexpected error."
FinalOutput == "final_output"             \* response.final_output of a run
ErrorText == "str(e)"                     \* the text of a caught exception
NoBody == "none"

\* the text field of an HTTP response: a fixed prefix, then a detail
NoText == [prefix |-> "", detail |-> NoBody]

\* Entries of the memory store as the reasoning component's tools show them.
Marker == "marker"                        \* text of an internal note
SystemEntry == [type |-> "system", content |-> Marker]
\* the `system` note a run logs when it sent a user-visible notification
NotifiedNote == [type |-> "system", content |-> "notified"]

Tasks == {1, 2}     \* slots for handler tasks alive at the same time
Reqs == {1, 2}      \* slots for HTTP requests in flight at the same time

VARIABLES
    clock,                  \* wall clock, seconds (datetime.now())
    bot_configured,         \* matrix_bot is not None (lifespan)
    start_time,             \* MatrixChatBot.start_time, seconds
    system_username,        \* MatrixChatBot.system_username
    mcp_available,          \* MatrixChatBot.mcp_available
    listener,               \* position of the task running MatrixChatBot.start
    attach_time,            \* clock when add_event_callback ran (history variable)
    conversation_history,   \* MatrixChatBot.conversation_history
    accepted,               \* every message ever appended, in order (history variable)
    delivered,              \* number of chat events delivered so far
    tasks,                  \* the _handle_message tasks
    reqs,                   \* the HTTP handler invocations
    context,                \* result of the last direct get_conversation_context call
    sessions,               \* per MCPServerSse object: its session is open
    memory                  \* entries of the memory store

vars == <<clock, bot_configured, start_time, system_username, mcp_available,
          listener, attach_time, conversation_history, accepted, delivered,
          tasks, reqs, context, sessions, memory>>

(***************************************************************************)
(* Pure helpers.                                                           *)
(***************************************************************************)
Min(a, b) == IF a < b THEN a ELSE b
Max(a, b) == IF a > b THEN a ELSE b

\* Python list slicing xs[start:] with a possibly negative start.
PySliceFrom(xs, start) ==
    LET n == Len(xs)
        from == IF start < 0 THEN Max(n + start, 0) ELSE Min(start, n)
    IN  SubSeq(xs, from + 1, n)

\* a list append in place of the bounded deque: nothing is evicted
deque_append_unbounded(hist, msg) == Append(hist, msg)

\* deque(maxlen=MAXLEN).append(msg): the oldest entry is dropped when full.
deque_append(hist, msg) ==
    IF Len(hist) >= MAXLEN
    THEN Append(SubSeq(hist, 2, Len(hist)), msg)
    ELSE Append(hist, msg)

\* msg["sender"].split(":")[0]: the tokens before the first ":".
RECURSIVE split_first(_)
split_first(s) ==
    IF s = << >> \/ Head(s) = ":" THEN << >>
    ELSE <<Head(s)>> \o split_first(Tail(s))

\* .replace("@", ""): every "@" token removed.
RECURSIVE replace_at(_)
replace_at(s) ==
    IF s = << >> THEN << >>
    ELSE IF Head(s) = "@" THEN replace_at(Tail(s))
    ELSE <<Head(s)>> \o replace_at(Tail(s))

sender_name(sender) == replace_at(split_first(sender))

\* the full sender id compared with the system name, unnormalized
role_of_raw(sender, sysname) ==
    IF sysname # << >> /\ sender = sysname
    THEN <<"system">>
    ELSE sender_name(sender)

\* the role shown for a sender (matrix_bot.py 172-176)
role_of(sender, sysname) ==
    IF sysname # << >> /\ sender_name(sender) = sysname
    THEN <<"system">>
    ELSE sender_name(sender)

\* datetime.fromisoformat(ts).strftime("%Y-%m-%d %H:%M"): seconds are dropped.
strftime_minute(t) == t \div 60

\* one formatted line of the context
context_line(msg, include_timestamps, sysname) ==
    [stamp   |-> IF include_timestamps THEN <<strftime_minute(msg.timestamp)>> ELSE << >>,
     role    |-> role_of(msg.sender, sysname),
     message |-> msg.message]

\* recent_messages of get_conversation_context (matrix_bot.py 166)
recent_messages(hist, max_messages) ==
    IF Len(hist) > max_messages THEN PySliceFrom(hist, 0 - max_messages) ELSE hist

None == [none |-> TRUE, lines |-> << >>]

\* MatrixChatBot.get_conversation_context; the constant header line
\* "Recent conversation history:" is left implicit in a non-None result.
get_conversation_context(hist, max_messages, include_timestamps, sysname) ==
    IF hist = << >> THEN None
    ELSE LET recent == recent_messages(hist, max_messages)
         IN  [none  |-> FALSE,
              lines |-> [i \in 1..Len(recent) |->
                            context_line(recent[i], include_timestamps, sysname)]]

\* the context built from the buffer as it was before the last append
build_conversation_context_stale(hist, sysname) ==
    LET ctx == get_conversation_context(SubSeq(hist, 1, Len(hist) - 1),
                                        ChatMaxMessages, FALSE, sysname)
    IN  IF ctx = None
        THEN [kind |-> "No previous conversation history.", lines |-> << >>]
        ELSE [kind |-> "history+please respond", lines |-> ctx.lines]

\* MatrixChatBot._build_conversation_context
build_conversation_context(hist, sysname) ==
    LET ctx == get_conversation_context(hist, ChatMaxMessages, FALSE, sysname)
    IN  IF ctx = None
        THEN [kind |-> "No previous conversation history.", lines |-> << >>]
        ELSE [kind |-> "history+please respond", lines |-> ctx.lines]

\* the None result of the bot formatted like a context
get_recent_conversation_context_unchecked(bot, hist, sysname) ==
    IF ~bot THEN [kind |-> "No recent conversation available.", lines |-> << >>]
    ELSE [kind |-> "history",
          lines |-> get_conversation_context(hist, ProcessMaxMessages, TRUE,
                                             sysname).lines]

\* main.get_recent_conversation_context
get_recent_conversation_context(bot, hist, sysname) ==
    IF ~bot THEN [kind |-> "No recent conversation available.", lines |-> << >>]
    ELSE LET ctx == get_conversation_context(hist, ProcessMaxMessages, TRUE, sysname)
         IN  IF ctx = None
             THEN [kind |-> "No recent conversation available.", lines |-> << >>]
             ELSE [kind |-> "history", lines |-> ctx.lines]

(***************************************************************************)
(* Records of the tasks.                                                   *)
(***************************************************************************)
NoContext == [kind |-> "unset", lines |-> << >>]

\* no direct call of get_conversation_context was made yet
NoCall == [called |-> FALSE, max_messages |-> 0, include_timestamps |-> FALSE,
           hist |-> << >>, result |-> None]

\* A handler task slot.  room/sender/body/server_timestamp are the event;
\* history_text, ai_response and exc are locals of _handle_message;
\* appended, runs, failed and sent are history fields recording what the
\* handler did for this event; invocations counts its Runner.run calls and
\* quoted is the memory content its final output reproduces.
FreeTask ==
    [pc |-> "free", room |-> RoomId, sender |-> BotUser, body |-> 0,
     server_timestamp |-> 0, history_text |-> NoContext,
     ai_response |-> NoBody, exc |-> FALSE,
     appended |-> FALSE, runs |-> 0, failed |-> "none", sent |-> << >>,
     invocations |-> 0, quoted |-> NoBody]

\* An HTTP handler slot.  kind is the endpoint; conversation_context,
\* result and exc are locals; status/body are the response once pc = "done".
\* invocations counts its Runner.run calls; snapshot is the memory the run
\* ingested, candidate whether it found a reminder to send, notified whether
\* it sent it (notify_user), quoted the memory content its output reproduces.
IdleReq ==
    [pc |-> "idle", kind |-> "none", conversation_context |-> NoContext,
     result |-> NoBody, exc |-> FALSE, failed |-> "none",
     status |-> 0, body |-> NoText,
     invocations |-> 0, quoted |-> NoBody,
     snapshot |-> {}, candidate |-> FALSE, notified |-> FALSE]

(***************************************************************************)
(* The shared MCPServerSse objects and the reasoning component.            *)
(***************************************************************************)
\* main.mcp_server_memory, main.mcp_server_misc and MatrixChatBot.mcp_memory:
\* one object each, entered by every run that needs it.
NoSessions ==
    [mcp_server_memory |-> FALSE, mcp_server_misc |-> FALSE,
     mcp_memory |-> FALSE]

\* "async with server": __aenter__ connects the object (a failed connect
\* cleans it up), __aexit__ cleans it up, whoever entered it.
connect(s, server, ok) == [s EXCEPT ![server] = ok]
cleanup(s, server) == [s EXCEPT ![server] = FALSE]

\* the one "await Runner.run(...)" of a handler being reached
invoke_runner(run) ==
    [run EXCEPT !.pc = "running", !.invocations = @ + 1]

\* mcp_servers=[mcp_memory, ...]: the agent's tools read the whole store
agent_visible(mem) == mem

\* memory contents a final output can reproduce (NoBody: none of them)
Quotable(mem) == {NoBody} \cup {e.content : e \in agent_visible(mem)}

\* "Ignore if already reminded in last 2h (check recent conversation +
\* system notes)", as a reasoning component that follows it decides
deduplicated(snapshot) == NotifiedNote \in snapshot

(***************************************************************************)
(* Initial state: main.lifespan has run up to its yield.                   *)
(***************************************************************************)
Configure(usernames, stores) ==
    /\ clock = 30
    /\ bot_configured \in BOOLEAN
    /\ start_time = clock
    /\ system_username \in usernames
    /\ mcp_available \in (IF bot_configured THEN BOOLEAN ELSE {FALSE})
    /\ listener = IF bot_configured THEN "login" ELSE "none"
    /\ attach_time = 0
    /\ conversation_history = << >>
    /\ accepted = << >>
    /\ delivered = 0
    /\ tasks = [t \in Tasks |-> FreeTask]
    /\ reqs = [r \in Reqs |-> IdleReq]
    /\ context = NoCall
    /\ sessions = NoSessions
    /\ memory \in stores

\* the memory store holds one internal note; SYSTEM_USERNAME is left unset
Init == Configure({NoUsername}, {{SystemEntry}})

\* the memory store is empty; SYSTEM_USERNAME is left unset
InitChat == Configure({NoUsername}, {{}})

\* the memory store is empty; SYSTEM_USERNAME is unset or names an account
InitCtx == Configure(SystemUsernames, {{}})

(***************************************************************************)
(* The wall clock.                                                         *)
(***************************************************************************)
tick ==
    /\ clock < 30 + 30 * MaxTicks
    /\ clock' = clock + 30
    /\ UNCHANGED <<bot_configured, start_time, system_username, mcp_available,
                   listener, attach_time, conversation_history, accepted,
                   delivered, tasks, reqs, context,
                   sessions, memory>>

(***************************************************************************)
(* MatrixChatBot.start, the listener task created once by lifespan.        *)
(***************************************************************************)
\* client.login returned: a LoginResponse (ok) or an error response.
start_login(ok) ==
    /\ listener = "login"
    /\ listener' = IF ok THEN "syncing" ELSE "returned"
    /\ attach_time' = IF ok THEN clock ELSE attach_time
    /\ UNCHANGED <<clock, bot_configured, start_time, system_username,
                   mcp_available, conversation_history, accepted, delivered,
                   tasks, reqs, context,
                   sessions, memory>>

\* sync_forever raised (network failure): the exception ends the task.
sync_forever_raises ==
    /\ listener = "syncing"
    /\ listener' = "raised"
    /\ UNCHANGED <<clock, bot_configured, start_time, system_username,
                   mcp_available, attach_time, conversation_history, accepted,
                   delivered, tasks, reqs, context,
                   sessions, memory>>

(***************************************************************************)
(* MatrixChatBot.message_callback: one task per RoomMessageText event.     *)
(***************************************************************************)
\* the event loop held by a run's external call: no event is delivered
\* while a run waits
message_callback_loop_held(t, room, sender, ts, limit) ==
    /\ listener = "syncing"
    /\ delivered < limit
    /\ tasks[t].pc = "free"
    /\ \A u \in Tasks : tasks[u].pc \notin {"running", "blocked"}
    /\ \A r \in Reqs : reqs[r].pc \notin {"running", "blocked"}
    /\ delivered' = delivered + 1
    /\ tasks' = [tasks EXCEPT ![t] =
                    [FreeTask EXCEPT !.pc = "scheduled", !.room = room,
                                     !.sender = sender, !.body = delivered + 1,
                                     !.server_timestamp = ts]]
    /\ UNCHANGED <<clock, bot_configured, start_time, system_username,
                   mcp_available, listener, attach_time, conversation_history,
                   accepted, reqs, context, sessions, memory>>

message_callback(t, room, sender, ts, limit) ==
    /\ listener = "syncing"
    /\ delivered < limit
    /\ tasks[t].pc = "free"
    /\ delivered' = delivered + 1
    /\ tasks' = [tasks EXCEPT ![t] =
                    [FreeTask EXCEPT !.pc = "scheduled", !.room = room,
                                     !.sender = sender, !.body = delivered + 1,
                                     !.server_timestamp = ts]]
    /\ UNCHANGED <<clock, bot_configured, start_time, system_username,
                   mcp_available, listener, attach_time, conversation_history,
                   accepted, reqs, context,
                   sessions, memory>>

\* the startup filter left out: no event counts as sent before the start
before_start_never(ts, start) == FALSE

\* the sender compared with the account's localpart, which no sender equals
self_authored_localpart(sender) == sender = <<"bot">>

\* the room filter left out: an event of any room is taken
wrong_room_never(room) == FALSE

\* the two filters at the top of _handle_message
wrong_room(room) == room # RoomId
before_start(ts, start) == ts < start * 1000

\* "Only respond if message is not from us"
self_authored(sender) == sender = BotUser

\* the entry appended to conversation_history
history_entry(ev, now) ==
    [sender |-> ev.sender, message |-> ev.body, timestamp |-> now]

\* _handle_message from its start to its first await (or its return).
handle_message(t) ==
    LET ev == tasks[t]
        hist == deque_append(conversation_history, history_entry(ev, clock))
    IN
    /\ ev.pc = "scheduled"
    /\ IF wrong_room(ev.room) \/ before_start(ev.server_timestamp, start_time)
       THEN /\ tasks' = [tasks EXCEPT ![t].pc = "done"]
            /\ UNCHANGED <<conversation_history, accepted>>
       ELSE /\ conversation_history' = hist
            /\ accepted' = Append(accepted, history_entry(ev, clock))
            /\ IF self_authored(ev.sender)
               THEN tasks' = [tasks EXCEPT ![t].pc = "done",
                                           ![t].appended = TRUE]
               ELSE IF ~mcp_available
               THEN tasks' = [tasks EXCEPT
                        ![t].pc = "done", ![t].appended = TRUE,
                        ![t].history_text =
                            build_conversation_context(hist, system_username)]
               ELSE tasks' = [tasks EXCEPT
                        ![t].pc = "entering", ![t].appended = TRUE,
                        ![t].runs = @ + 1,
                        ![t].history_text =
                            build_conversation_context(hist, system_username)]
    /\ UNCHANGED <<clock, bot_configured, start_time, system_username,
                   mcp_available, listener, attach_time, delivered, reqs,
                   context,
                   sessions, memory>>

\* the inner handler falling through to the apology instead of returning
inner_except_apologizes(task, where) ==
    [task EXCEPT !.pc = "apologizing", !.exc = FALSE, !.failed = where]

\* the inner handler calling Runner.run again after a failed run
inner_except_retries(task, where) ==
    IF where = "run"
    THEN [task EXCEPT !.pc = "running", !.exc = FALSE,
                      !.invocations = @ + 1]
    ELSE [task EXCEPT !.pc = "done", !.exc = FALSE, !.failed = where]

\* what the inner "except Exception" of _handle_message does: log, return.
inner_except(task, where) ==
    [task EXCEPT !.pc = "done", !.exc = FALSE, !.failed = where]

\* "async with self.mcp_memory" entered (ok) or raised.
enter_memory(t, ok) ==
    /\ tasks[t].pc = "entering"
    /\ tasks' = [tasks EXCEPT ![t] =
                    IF ok THEN invoke_runner(@)
                    ELSE inner_except(@, "connect")]
    /\ sessions' = connect(sessions, "mcp_memory", ok)
    /\ UNCHANGED <<clock, bot_configured, start_time, system_username,
                   mcp_available, listener, attach_time, conversation_history,
                   accepted, delivered, reqs, context, memory>>

\* Runner.run returned a result (which may reproduce memory content the
\* agent could read), raised, or never returns.
runner_run(t, outcome) ==
    /\ tasks[t].pc = "running"
    /\ \E q \in (IF outcome = "ok" THEN Quotable(memory) ELSE {NoBody}) :
         tasks' = [tasks EXCEPT ![t] =
                    CASE outcome = "ok" ->
                            [@ EXCEPT !.pc = "exiting", !.ai_response = FinalOutput,
                                      !.quoted = q]
                      [] outcome = "raise" ->
                            [@ EXCEPT !.pc = "exiting", !.exc = TRUE, !.failed = "run"]
                      [] OTHER -> [@ EXCEPT !.pc = "blocked"]]
    /\ UNCHANGED <<clock, bot_configured, start_time, system_username,
                   mcp_available, listener, attach_time, conversation_history,
                   accepted, delivered, reqs, context,
                   sessions, memory>>

\* the "async with" block is left: cleanup ran (ok) or raised.
exit_memory(t, ok) ==
    /\ tasks[t].pc = "exiting"
    /\ tasks' = [tasks EXCEPT ![t] =
                    IF @.exc THEN inner_except(@, @.failed)
                    ELSE IF ~ok THEN inner_except(@, "cleanup")
                    ELSE [@ EXCEPT !.pc = "sending"]]
    /\ sessions' = cleanup(sessions, "mcp_memory")
    /\ UNCHANGED <<clock, bot_configured, start_time, system_username,
                   mcp_available, listener, attach_time, conversation_history,
                   accepted, delivered, reqs, context, memory>>

\* the caught exception's text sent to the room
error_message_body_leaks(exc_text) == exc_text

\* body of the message sent by the outer "except Exception"
error_message_body(exc_text) == ApologyText

\* the reply sent, then an exception raised inside the outer try
reply_sent_then_raises(task) ==
    [task EXCEPT !.pc = "apologizing", !.failed = "send",
                 !.sent = Append(@, task.ai_response)]

\* room_send of the reply returned: the handler logs and ends
reply_sent(task) ==
    [task EXCEPT !.pc = "done", !.sent = Append(@, task.ai_response)]

\* client.room_send of the reply returned (ok) or raised.
send_response(t, ok) ==
    /\ tasks[t].pc = "sending"
    /\ tasks' = [tasks EXCEPT ![t] =
                    IF ok THEN reply_sent(@)
                    ELSE [@ EXCEPT !.pc = "apologizing", !.failed = "send"]]
    /\ UNCHANGED <<clock, bot_configured, start_time, system_username,
                   mcp_available, listener, attach_time, conversation_history,
                   accepted, delivered, reqs, context,
                   sessions, memory>>

\* the outer handler's room_send of the apology returned (ok) or raised.
send_error_message(t, ok) ==
    /\ tasks[t].pc = "apologizing"
    /\ tasks' = [tasks EXCEPT ![t] =
                    IF ok THEN [@ EXCEPT !.pc = "done",
                                         !.sent = Append(@, error_message_body(ErrorText))]
                    ELSE [@ EXCEPT !.pc = "done"]]
    /\ UNCHANGED <<clock, bot_configured, start_time, system_username,
                   mcp_available, listener, attach_time, conversation_history,
                   accepted, delivered, reqs, context,
                   sessions, memory>>

\* _task_done_callback: the finished task is logged and dropped.
task_done_callback(t) ==
    /\ tasks[t].pc = "done"
    /\ tasks' = [tasks EXCEPT ![t] = FreeTask]
    /\ UNCHANGED <<clock, bot_configured, start_time, system_username,
                   mcp_available, listener, attach_time, conversation_history,
                   accepted, delivered, reqs, context,
                   sessions, memory>>

(***************************************************************************)
(* main.process_text (POST /process) and main.get_summary (GET /summary).  *)
(***************************************************************************)
\* the JSONResponse returned after the try/except: always built normally
json_response(req, text) ==
    [req EXCEPT !.pc = "done", !.status = 200, !.body = text, !.exc = FALSE]

\* the text the "except Exception as e" of each endpoint builds from e
\* (the clock time /summary adds after the error is left out)
error_text(kind, e) ==
    IF kind = "process"
    THEN [prefix |-> "Error processing with AI: ", detail |-> e]
    ELSE [prefix |-> "Error: ", detail |-> e]

\* the exception re-raised: the framework answers 500
run_except_reraises(req, where) ==
    [req EXCEPT !.pc = "done", !.failed = where, !.status = 500, !.exc = FALSE]

\* "except Exception as e": the error text becomes the response field
\* (ai_response of /process, content of /summary).
run_except(req, where) ==
    json_response([req EXCEPT !.failed = where], error_text(req.kind, ErrorText))

\* process_text up to its first await inside the try: the body is decoded
\* (a body that is not UTF-8 raises outside the try: the framework answers
\* 500) and the conversation context is read from the bot.
process_text(r, utf8_ok) ==
    /\ reqs[r].pc = "idle"
    /\ reqs' = [reqs EXCEPT ![r] =
                  IF ~utf8_ok
                  THEN [@ EXCEPT !.pc = "done", !.kind = "process",
                                 !.failed = "decode", !.status = 500]
                  ELSE [@ EXCEPT !.pc = "enter_memory", !.kind = "process",
                                 !.conversation_context =
                                    get_recent_conversation_context(
                                        bot_configured, conversation_history,
                                        system_username)]]
    /\ UNCHANGED <<clock, bot_configured, start_time, system_username,
                   mcp_available, listener, attach_time, conversation_history,
                   accepted, delivered, tasks, context,
                   sessions, memory>>

\* get_summary up to its first await inside the try.
get_summary(r) ==
    /\ reqs[r].pc = "idle"
    /\ reqs' = [reqs EXCEPT ![r] = [@ EXCEPT !.pc = "enter_memory",
                                             !.kind = "summary"]]
    /\ UNCHANGED <<clock, bot_configured, start_time, system_username,
                   mcp_available, listener, attach_time, conversation_history,
                   accepted, delivered, tasks, context,
                   sessions, memory>>

\* "async with mcp_server_memory" entered (ok) or raised.
req_enter_memory(r, ok) ==
    /\ reqs[r].pc = "enter_memory"
    /\ reqs' = [reqs EXCEPT ![r] =
                  IF ok THEN [@ EXCEPT !.pc = "enter_misc"]
                  ELSE run_except(@, "connect")]
    /\ sessions' = connect(sessions, "mcp_server_memory", ok)
    /\ UNCHANGED <<clock, bot_configured, start_time, system_username,
                   mcp_available, listener, attach_time, conversation_history,
                   accepted, delivered, tasks, context, memory>>

\* "async with mcp_server_misc" entered (ok) or raised.  Entered, the
\* handler calls Runner.run and the agent ingests the memory store.
req_enter_misc(r, ok) ==
    /\ reqs[r].pc = "enter_misc"
    /\ reqs' = [reqs EXCEPT ![r] =
                  IF ok THEN [invoke_runner(@) EXCEPT !.snapshot = memory]
                  ELSE [@ EXCEPT !.pc = "exiting", !.exc = TRUE,
                                 !.failed = "connect"]]
    /\ sessions' = connect(sessions, "mcp_server_misc", ok)
    /\ UNCHANGED <<clock, bot_configured, start_time, system_username,
                   mcp_available, listener, attach_time, conversation_history,
                   accepted, delivered, tasks, context, memory>>

\* Runner.run returned a result, raised, or never returns.  A /process run
\* that returns has found a reminder to send or not (candidate); it sends
\* it with notify_user and logs its `system` note unless the memory it
\* ingested shows the reminder as already sent.  A /summary run that
\* returns may reproduce memory content the agent could read.
req_runner_run(r, outcome) ==
    /\ reqs[r].pc = "running"
    /\ \E candidate \in (IF outcome = "ok" /\ reqs[r].kind = "process"
                          THEN BOOLEAN ELSE {FALSE}),
          q \in (IF outcome = "ok" /\ reqs[r].kind = "summary"
                  THEN Quotable(reqs[r].snapshot) ELSE {NoBody}) :
         LET send == candidate /\ ~deduplicated(reqs[r].snapshot)
         IN  /\ reqs' = [reqs EXCEPT ![r] =
                  CASE outcome = "ok" ->
                          [@ EXCEPT !.pc = "exiting", !.result = FinalOutput,
                                    !.candidate = candidate,
                                    !.notified = send, !.quoted = q]
                    [] outcome = "raise" ->
                          [@ EXCEPT !.pc = "exiting", !.exc = TRUE, !.failed = "run"]
                    [] OTHER -> [@ EXCEPT !.pc = "blocked"]]
             /\ memory' = IF send THEN memory \cup {NotifiedNote} ELSE memory
    /\ UNCHANGED <<clock, bot_configured, start_time, system_username,
                   mcp_available, listener, attach_time, conversation_history,
                   accepted, delivered, tasks, context, sessions>>

\* the "async with" blocks are left (cleanup ok, or it raised), then the
\* response is built from the result or from the caught exception.
req_exit(r, ok) ==
    /\ reqs[r].pc = "exiting"
    /\ reqs' = [reqs EXCEPT ![r] =
                  IF @.exc THEN run_except(@, @.failed)
                  ELSE IF ~ok THEN run_except(@, "cleanup")
                  ELSE json_response(@, [prefix |-> "", detail |-> @.result])]
    /\ sessions' = cleanup(cleanup(sessions, "mcp_server_misc"),
                           "mcp_server_memory")
    /\ UNCHANGED <<clock, bot_configured, start_time, system_username,
                   mcp_available, listener, attach_time, conversation_history,
                   accepted, delivered, tasks, context, memory>>

(***************************************************************************)
(* A direct call of MatrixChatBot.get_conversation_context.                *)
(***************************************************************************)
call_get_conversation_context(max_messages, include_timestamps) ==
    /\ bot_configured
    /\ context' = [called |-> TRUE, max_messages |-> max_messages,
                   include_timestamps |-> include_timestamps,
                   hist   |-> conversation_history,
                   result |-> get_conversation_context(
                                 conversation_history, max_messages,
                                 include_timestamps, system_username)]
    /\ UNCHANGED <<clock, bot_configured, start_time, system_username,
                   mcp_available, listener, attach_time, conversation_history,
                   accepted, delivered, tasks, reqs,
                   sessions, memory>>

(***************************************************************************)
(* Specifications.                                                         *)
(***************************************************************************)
Outcomes == {"ok", "raise", "never"}

\* steps of the listener task
ListenerStep ==
    \/ \E ok \in BOOLEAN : start_login(ok)
    \/ sync_forever_raises

\* steps a handler task takes once it is created
TaskStep(t) ==
    \/ handle_message(t)
    \/ \E ok \in BOOLEAN : enter_memory(t, ok)
    \/ \E o \in Outcomes : runner_run(t, o)
    \/ \E ok \in BOOLEAN : exit_memory(t, ok)
    \/ \E ok \in BOOLEAN : send_response(t, ok)
    \/ \E ok \in BOOLEAN : send_error_message(t, ok)
    \/ task_done_callback(t)

\* steps an HTTP handler takes once the request has arrived
ReqStep(r) ==
    \/ \E ok \in BOOLEAN : req_enter_memory(r, ok)
    \/ \E ok \in BOOLEAN : req_enter_misc(r, ok)
    \/ \E o \in Outcomes : req_runner_run(r, o)
    \/ \E ok \in BOOLEAN : req_exit(r, ok)

\* an event arrives from a room in `rooms`, sent at a second in `sent_at`
Deliver(t, limit, rooms, sent_at) ==
    \E room \in rooms, sender \in Senders, ts \in sent_at :
        message_callback(t, room, sender, ts * 1000, limit)

\* seconds at which an event delivered now can have been sent
SentAt == {x \in 0..clock : x % 30 = 0}

Request(r) ==
    \/ \E ok \in BOOLEAN : process_text(r, ok)
    \/ get_summary(r)

\* the chat side with handler slots T and at most `limit` events
ChatNext(T, limit, rooms, sent_at) ==
    \/ ListenerStep
    \/ \E t \in T : Deliver(t, limit, rooms, sent_at)
    \/ \E t \in T : TaskStep(t)

\* the HTTP side with request slots R
HttpNext(R) ==
    \/ \E r \in R : Request(r)
    \/ \E r \in R : ReqStep(r)

\* The whole service: the listener, one handler task and one HTTP request.
Next == tick \/ ChatNext({1}, 1, Rooms, SentAt) \/ HttpNext({1})
Spec == Init /\ [][Next]_vars

\* The event loop runs every task that can run; whether an awaited call
\* returns is the environment's choice, made inside the step.
Fairness ==
    /\ WF_vars(\E ok \in BOOLEAN : start_login(ok))
    /\ WF_vars(TaskStep(1))
    /\ WF_vars(ReqStep(1))
FairSpec == Spec /\ Fairness

\* The chat side alone, with two concurrent handler tasks.
NextChat == tick \/ ChatNext(Tasks, MaxEvents, Rooms, SentAt)
SpecChat == InitChat /\ [][NextChat]_vars

\* The HTTP side alone, with two concurrent requests.
NextHttp == HttpNext(Reqs)
SpecHttp == Init /\ [][NextHttp]_vars

\* The conversation buffer filled past its capacity, one event at a time,
\* every event being one the filters accept.
NextBuf == ChatNext({1}, MaxBufEvents, {RoomId}, {clock})
SpecBuf == InitChat /\ [][NextBuf]_vars

\* get_conversation_context called with every argument on small buffers.
NextCtx ==
    \/ ChatNext({1}, MaxCtxEvents, {RoomId}, {clock})
    \/ \E k \in 0..MaxArg, ts \in BOOLEAN : call_get_conversation_context(k, ts)
SpecCtx == InitCtx /\ [][NextCtx]_vars

(***************************************************************************)
(* Vocabulary of the properties.                                           *)
(***************************************************************************)
\* the last n entries of a sequence
LastN(xs, n) == SubSeq(xs, Max(1, Len(xs) - n + 1), Len(xs))

\* the bodies of a sequence of history entries, resp. of context lines
Messages(xs) == [i \in 1..Len(xs) |-> xs[i].message]

\* Every body of bs is among the last MAXLEN bodies accepted, none is the
\* body of an evicted message, and they stand in arrival order (each one
\* arrived after the one before it).  Bodies are unique per event.
OnlyLastArrivedInOrder(bs) ==
    LET arrived == Messages(accepted)
        n == Len(arrived)
        evicted == IF n > MAXLEN THEN n - MAXLEN ELSE 0
    IN  \A i \in 1..Len(bs) :
          /\ \A e \in 1..evicted : arrived[e] # bs[i]
          /\ \E j \in (evicted + 1)..n :
                /\ arrived[j] = bs[i]
                /\ i > 1 => \E h \in (evicted + 1)..(j - 1) : arrived[h] = bs[i - 1]

(***************************************************************************)
(* C1: after any sequence of accepted chat messages, also one longer than  *)
(* the capacity MAXLEN, the conversation buffer holds at most MAXLEN       *)
(* messages, and the output of get_conversation_context (for every         *)
(* max_messages, and as built for a handler's run) contains only messages  *)
(* among the last MAXLEN accepted, in arrival order, never an evicted one. *)
(***************************************************************************)
C1_BufferHoldsLastN ==
    /\ Len(conversation_history) <= MAXLEN
    /\ OnlyLastArrivedInOrder(Messages(conversation_history))
    /\ \A k \in 0..(MAXLEN + 1) :
          OnlyLastArrivedInOrder(Messages(
              get_conversation_context(conversation_history, k, FALSE,
                                       system_username).lines))
    /\ OnlyLastArrivedInOrder(Messages(
          get_conversation_context(conversation_history, ProcessMaxMessages,
                                   TRUE, system_username).lines))
    /\ \A t \in Tasks :
          OnlyLastArrivedInOrder(Messages(tasks[t].history_text.lines))

\* more messages were accepted than the buffer holds, and a handler has
\* just built its context from the full buffer
C1_Witness ==
    /\ Len(accepted) > MAXLEN
    /\ Len(conversation_history) = MAXLEN
    /\ \E t \in Tasks :
          /\ tasks[t].pc = "entering"
          /\ Len(tasks[t].history_text.lines) = MAXLEN

(***************************************************************************)
(* C2: for every non-empty buffer and every max_messages >= 0,             *)
(* get_conversation_context returns exactly the most recent                *)
(* min(max_messages, buffer size) messages, oldest first: every stored     *)
(* message when max_messages is at least the stored count, and no message  *)
(* when max_messages is 0.                                                 *)
(***************************************************************************)
C2_ReturnsMostRecent ==
    (context.called /\ context.hist # << >> /\ context.max_messages >= 0)
    => /\ ~context.result.none
       /\ Messages(context.result.lines) =
             LastN(Messages(context.hist),
                   Min(context.max_messages, Len(context.hist)))

(***************************************************************************)
(* Vocabulary of the handler properties.                                   *)
(***************************************************************************)
\* the handler of slot t has run for its event (it is past its first stretch)
Handled(t) == tasks[t].pc \notin {"free", "scheduled"}

\* the handler of slot t has returned
Returned(t) == tasks[t].pc = "done"

\* the event of slot t left no trace: not in the buffer, no run, nothing sent
Ignored(t) ==
    /\ ~tasks[t].appended
    /\ \A i \in 1..Len(accepted) : accepted[i].message # tasks[t].body
    /\ tasks[t].runs = 0
    /\ tasks[t].sent = << >>

\* the event of slot t passed both filters
Accepted(t) ==
    /\ tasks[t].room = RoomId
    /\ tasks[t].server_timestamp >= start_time * 1000

\* the event of slot t was written by the bot's own account
SelfAuthored(t) == tasks[t].sender = BotUser

\* where a handler can fail inside its reasoning step
StepFailures == {"connect", "run", "cleanup"}

(***************************************************************************)
(* C3 as stated: a chat event whose room is not the configured room, or    *)
(* that was sent before the listener attached, is ignored entirely: not    *)
(* appended to the buffer, no run started, no outbound message.            *)
(***************************************************************************)
C3_IgnoredBeforeAttach ==
    \A t \in Tasks :
        (Handled(t) /\ (\/ tasks[t].room # RoomId
                        \/ tasks[t].server_timestamp < attach_time * 1000))
        => Ignored(t)

(***************************************************************************)
(* C3 as amended: a chat event whose room is not the configured room, or   *)
(* whose server timestamp is earlier than start_time (taken when the bot   *)
(* object is constructed, before login), is ignored entirely: not          *)
(* appended to the buffer, no run started, no outbound message.            *)
(***************************************************************************)
C3_IgnoredBeforeStart ==
    \A t \in Tasks :
        (Handled(t) /\ (\/ tasks[t].room # RoomId
                        \/ tasks[t].server_timestamp < start_time * 1000))
        => (Returned(t) /\ Ignored(t))

\* one event of the configured room sent before start_time and one event
\* of another room have both been handled
C3_Witness ==
    \E t, u \in Tasks :
        /\ Returned(t) /\ tasks[t].room = RoomId
        /\ tasks[t].server_timestamp < start_time * 1000
        /\ Returned(u) /\ tasks[u].room # RoomId
        /\ tasks[u].server_timestamp >= start_time * 1000

(***************************************************************************)
(* C4 as stated: every accepted chat message is appended to the buffer     *)
(* whether or not it is self-authored; a self-authored message starts no   *)
(* run and causes no outbound message; a message that is not               *)
(* self-authored starts exactly one conversational run.                    *)
(***************************************************************************)
C4_ExactlyOneRun ==
    \A t \in Tasks :
        (Handled(t) /\ Accepted(t))
        => /\ tasks[t].appended
           /\ SelfAuthored(t) => (tasks[t].runs = 0 /\ tasks[t].sent = << >>)
           /\ ~SelfAuthored(t) => tasks[t].runs = 1

(***************************************************************************)
(* C4 as amended: every accepted chat message is appended to the buffer    *)
(* whether or not it is self-authored; a self-authored message starts no   *)
(* run and causes no outbound message; a message that is not               *)
(* self-authored starts exactly one conversational run when the memory     *)
(* connection is marked available (mcp_available), and none when not.      *)
(***************************************************************************)
C4_OneRunWhenAvailable ==
    \A t \in Tasks :
        (Handled(t) /\ Accepted(t))
        => /\ tasks[t].appended
           /\ \E i \in 1..Len(accepted) : accepted[i].message = tasks[t].body
           /\ SelfAuthored(t) => (tasks[t].runs = 0 /\ tasks[t].sent = << >>)
           /\ ~SelfAuthored(t) =>
                 tasks[t].runs = (IF mcp_available THEN 1 ELSE 0)

\* a self-authored message and one of another user were both accepted and
\* handled to the end, the second with its run and its reply
C4_Witness ==
    \E t, u \in Tasks :
        /\ Returned(t) /\ Accepted(t) /\ SelfAuthored(t) /\ tasks[t].appended
        /\ Returned(u) /\ Accepted(u) /\ ~SelfAuthored(u)
        /\ tasks[u].runs = 1 /\ tasks[u].sent = <<FinalOutput>>

(***************************************************************************)
(* C5: for every /process and /summary request, a failure of the run       *)
(* (memory store, auxiliary provider or reasoning component unreachable    *)
(* or erroring) is caught and becomes a normal HTTP 200 response whose     *)
(* text field carries the error text; it never propagates as an HTTP       *)
(* error.                                                                  *)
(***************************************************************************)
C5_FailureAnsweredInBand ==
    \A r \in Reqs :
        reqs[r].failed \in StepFailures
        => \/ reqs[r].pc = "exiting" /\ reqs[r].exc
           \/ /\ reqs[r].pc = "done"
              /\ reqs[r].status = 200
              /\ reqs[r].body.detail = ErrorText
              /\ reqs[r].body.prefix # ""

\* a /process request and a /summary request have both failed in their
\* run and have been answered
C5_Witness ==
    \E r, q \in Reqs :
        /\ reqs[r].kind = "process" /\ reqs[r].pc = "done"
        /\ reqs[r].failed = "run"
        /\ reqs[q].kind = "summary" /\ reqs[q].pc = "done"
        /\ reqs[q].failed = "connect"

(***************************************************************************)
(* C6 as stated: whenever handling an accepted chat message that is not    *)
(* self-authored fails internally (a failure of the reasoning call or of   *)
(* the memory connection included), the generic apology is sent to the     *)
(* room.                                                                   *)
(***************************************************************************)
C6_ApologyOnEveryFailure ==
    \A t \in Tasks :
        (Returned(t) /\ tasks[t].failed # "none")
        => \E i \in 1..Len(tasks[t].sent) : tasks[t].sent[i] = ApologyText

(***************************************************************************)
(* C6 as amended: when the handling fails inside the reasoning step (the   *)
(* memory connection or the reasoning call), the handler logs the error    *)
(* and sends nothing; the generic apology is attempted exactly when the    *)
(* failure is outside that step (sending the reply raised), and is then    *)
(* the only message sent, if its own send succeeds.                        *)
(***************************************************************************)
C6_ApologyOnlyOutsideStep ==
    \A t \in Tasks :
        /\ (tasks[t].failed \in StepFailures) =>
              (tasks[t].pc \in {"exiting", "done"} /\ tasks[t].sent = << >>)
        /\ (tasks[t].failed = "send") =>
              \/ tasks[t].pc = "apologizing" /\ tasks[t].sent = << >>
              \/ Returned(t) /\ tasks[t].sent \in {<< >>, <<ApologyText>>}
        /\ (tasks[t].pc = "apologizing") => tasks[t].failed = "send"

\* one handler failed in its reasoning call and returned silently; another
\* failed to send its reply and sent the apology
C6_Witness ==
    \E t, u \in Tasks :
        /\ Returned(t) /\ tasks[t].failed = "run" /\ tasks[t].sent = << >>
        /\ Returned(u) /\ tasks[u].failed = "send"
        /\ tasks[u].sent = <<ApologyText>>

(***************************************************************************)
(* C7: no outbound message of the chat handler contains error detail:      *)
(* every body it sends is the final output of a successful run or the      *)
(* fixed apology text, never the text of a caught exception.               *)
(***************************************************************************)
C7_NoErrorDetailSent ==
    \A t \in Tasks :
        \A i \in 1..Len(tasks[t].sent) :
            /\ tasks[t].sent[i] # ErrorText
            /\ \/ tasks[t].sent[i] = ApologyText
               \/ /\ tasks[t].sent[i] = FinalOutput
                  /\ tasks[t].ai_response = FinalOutput
                  /\ tasks[t].failed = "none"

\* one handler has sent the apology and another the final output
C7_Witness ==
    \E t, u \in Tasks :
        /\ tasks[t].sent = <<ApologyText>>
        /\ tasks[u].sent = <<FinalOutput>>

(***************************************************************************)
(* C8: runs that may mutate the memory store are serialized: at no time    *)
(* are two of them (a /process run, a chat-message run) active together.   *)
(***************************************************************************)
ActiveChatRuns ==
    {t \in Tasks : tasks[t].pc \in {"entering", "running", "exiting", "blocked"}}

ActiveProcessRuns ==
    {r \in Reqs : /\ reqs[r].kind = "process"
                  /\ reqs[r].pc \in {"enter_memory", "enter_misc", "running",
                                     "exiting", "blocked"}}

C8_MutatingRunsSerialized ==
    Cardinality(ActiveChatRuns) + Cardinality(ActiveProcessRuns) <= 1

(***************************************************************************)
(* C9: every run eventually ends: a run whose external call never returns  *)
(* is aborted after a hard timeout, so every /process request, /summary    *)
(* request and chat-message run that starts also completes.  Stated as     *)
(* what a finite run can refute: a run that has started and has not        *)
(* ended always has a next step of its own (its call returns, or its       *)
(* timeout aborts it).                                                     *)
(***************************************************************************)
C9_EveryRunEnds ==
    /\ \A r \in Reqs :
          reqs[r].pc \notin {"idle", "done"} => ENABLED ReqStep(r)
    /\ \A t \in Tasks :
          tasks[t].pc \notin {"free", "done"} => ENABLED TaskStep(t)

(***************************************************************************)
(* C10: the chat listener is supervised: after a login failure, or a       *)
(* network failure that ends the sync loop, the listener task is           *)
(* restarted and eventually listens again.  Stated as what a finite run    *)
(* can refute: a listener task that has ended always has a next step (its  *)
(* restart).                                                               *)
(***************************************************************************)
C10_ListenerRestarted ==
    (bot_configured /\ listener \notin {"login", "syncing"})
    => ENABLED ListenerStep

(***************************************************************************)
(* C11: for one trigger (one /process request, one /summary request, one   *)
(* accepted chat message) the handler calls the reasoning component at     *)
(* most once; when that call fails it is not called again: the handler     *)
(* goes on to its end with the one call made.                              *)
(***************************************************************************)
C11_AtMostOneInvocation ==
    /\ \A t \in Tasks :
          /\ tasks[t].invocations <= 1
          /\ tasks[t].invocations = 1 => tasks[t].runs = 1
          /\ tasks[t].failed = "run" =>
                (tasks[t].invocations = 1 /\ tasks[t].pc \in {"exiting", "done"})
    /\ \A r \in Reqs :
          /\ reqs[r].invocations <= 1
          /\ reqs[r].failed = "run" =>
                (reqs[r].invocations = 1 /\ reqs[r].pc \in {"exiting", "done"})

\* a chat handler and an HTTP handler have both ended after their one call
\* of the reasoning component failed
C11_Witness ==
    \E t \in Tasks, r \in Reqs :
        /\ Returned(t) /\ tasks[t].failed = "run" /\ tasks[t].invocations = 1
        /\ reqs[r].pc = "done" /\ reqs[r].failed = "run"
        /\ reqs[r].invocations = 1

\* the handler of slot t runs its first stretch on an accepted event
Ingress(t) ==
    /\ tasks[t].pc = "scheduled" /\ tasks'[t].pc # "scheduled"
    /\ Accepted(t)

\* one entry for the event of slot t is appended, the oldest dropped at capacity
OneAppend(t) ==
    LET n == Len(conversation_history')
    IN  /\ n >= 1
        /\ conversation_history'[n].message = tasks[t].body
        /\ conversation_history'[n].sender = tasks[t].sender
        /\ SubSeq(conversation_history', 1, n - 1)
              = LastN(conversation_history, MAXLEN - 1)
        /\ Len(accepted') = Len(accepted) + 1

BufferStep ==
    /\ (conversation_history' # conversation_history)
          => \E t \in Tasks : Ingress(t)
    /\ \A t \in Tasks : Ingress(t) => OneAppend(t)

(***************************************************************************)
(* C12: the conversation buffer is changed only by the ingress of an       *)
(* accepted chat message, by one append per accepted message (the oldest   *)
(* entry dropped at capacity): every other step (a /process or /summary    *)
(* run, a read of the context, a run that fails) leaves it unchanged.      *)
(***************************************************************************)
C12_BufferChangedOnlyByIngress == [][BufferStep]_vars

\* the buffer holds the one accepted message after a /process run that read
\* it has failed and the message's own run has failed
C12_Witness ==
    \E t \in Tasks, r \in Reqs :
        /\ Len(conversation_history) = 1
        /\ conversation_history[1].message = tasks[t].body
        /\ Returned(t) /\ tasks[t].failed = "run"
        /\ reqs[r].pc = "done" /\ reqs[r].kind = "process"
        /\ reqs[r].failed = "run"
        /\ reqs[r].conversation_context.kind = "history"

\* contents of the `system`-typed entries of the memory store
SystemContents == {e.content : e \in {x \in memory : x.type = "system"}}

(***************************************************************************)
(* C13: the text of a `system`-typed memory entry (a marker token) never   *)
(* appears in the string /summary returns nor in an outbound chat message: *)
(* what the reasoning component can read and what may go out are kept      *)
(* apart.                                                                  *)
(***************************************************************************)
C13_NoSystemContentOutbound ==
    /\ \A t \in Tasks :
          \A i \in 1..Len(tasks[t].sent) :
              tasks[t].sent[i] = tasks[t].ai_response
              => tasks[t].quoted \notin SystemContents
    /\ \A r \in Reqs :
          (/\ reqs[r].kind = "summary" /\ reqs[r].pc = "done"
           /\ reqs[r].body.detail = reqs[r].result)
          => reqs[r].quoted \notin SystemContents

(***************************************************************************)
(* C14: of two /process runs that find the same reminder to send (same     *)
(* intent and date) within the 2-hour window, at most one sends a          *)
(* user-visible notification; the other sees the first one's trace (its    *)
(* `system` note or the conversation context) and does nothing.            *)
(***************************************************************************)
C14_AtMostOneNotification ==
    \A r, q \in Reqs :
        (r # q /\ reqs[r].candidate /\ reqs[q].candidate)
        => ~(reqs[r].notified /\ reqs[q].notified)

\* the local part of a user id "@local:server"
Localpart(sender) == <<sender[2]>>

\* the role the claim prescribes for a sender
ExpectedRole(sender) ==
    IF system_username # NoUsername /\ Localpart(sender) = system_username
    THEN <<"system">>
    ELSE Localpart(sender)

(***************************************************************************)
(* C15: in the output of get_conversation_context the role of a line is    *)
(* the literal "system" when a system account is configured and the        *)
(* sender, normalized ("@" prefix and ":server" suffix stripped), equals   *)
(* it; in every other case, no system account configured included, the     *)
(* role is the normalized sender name.                                     *)
(***************************************************************************)
C15_RoleOfSender ==
    context.called =>
        \A i \in 1..Len(context.result.lines) :
            \E j \in 1..Len(context.hist) :
                /\ context.hist[j].message = context.result.lines[i].message
                /\ context.result.lines[i].role
                      = ExpectedRole(context.hist[j].sender)

\* with a system account configured, a call returned one line of that
\* account, shown as "system", and one line of another sender
C15_Witness ==
    /\ context.called /\ system_username = <<"alice">>
    /\ \E i, j \in 1..Len(context.result.lines) :
          /\ context.result.lines[i].role = <<"system">>
          /\ context.result.lines[j].role = <<"bot">>

\* without a system account, a call returned a line under the sender's name
C15_WitnessUnset ==
    /\ context.called /\ system_username = NoUsername
    /\ \E i \in 1..Len(context.result.lines) :
          context.result.lines[i].role = <<"alice">>

NoRecent == "No recent conversation available."

\* a /process request runs its first stretch
ProcessStarts(r) ==
    /\ reqs[r].pc = "idle" /\ reqs'[r].pc = "enter_memory"
    /\ reqs'[r].kind = "process"

\* the context a starting /process run takes is the fixed text exactly when
\* there is no bot or the buffer is empty
ProcessContextStep ==
    \A r \in Reqs :
        ProcessStarts(r) =>
            ((reqs'[r].conversation_context.kind = NoRecent)
                <=> (~bot_configured \/ conversation_history = << >>))

\* a /process run that took the fixed text goes on to connect and to call
\* the reasoning component
ProceedsWithNoRecent ==
    \A r \in Reqs :
        (/\ reqs[r].kind = "process"
         /\ reqs[r].conversation_context.kind = NoRecent
         /\ reqs[r].pc \in {"enter_memory", "enter_misc", "running"})
        => ENABLED ReqStep(r)

(***************************************************************************)
(* C16: get_conversation_context returns None exactly when the buffer is   *)
(* empty (for every max_messages and either timestamp setting);            *)
(* get_recent_conversation_context returns "No recent conversation         *)
(* available." exactly when no chat bot is configured or the buffer is     *)
(* empty, and a /process run then still proceeds, with that text as its    *)
(* context.                                                                *)
(***************************************************************************)
C16_NoneWhenEmpty ==
    /\ [](\A k \in 0..(MAXLEN + 1), ts \in BOOLEAN :
            (get_conversation_context(conversation_history, k, ts,
                                      system_username) = None)
            <=> (conversation_history = << >>))
    /\ []ProceedsWithNoRecent
    /\ [][ProcessContextStep]_vars

\* a /process run took the fixed text from a configured bot with an empty
\* buffer and has returned the final output of its run
C16_Witness ==
    \E r \in Reqs :
        /\ bot_configured /\ conversation_history = << >>
        /\ reqs[r].kind = "process" /\ reqs[r].pc = "done"
        /\ reqs[r].conversation_context.kind = NoRecent
        /\ reqs[r].invocations = 1
        /\ reqs[r].body.detail = FinalOutput

\* a run is waiting on the reasoning component
RunWaits ==
    \/ \E t \in Tasks : tasks[t].pc \in {"running", "blocked"}
    \/ \E r \in Reqs : reqs[r].pc \in {"running", "blocked"}

(***************************************************************************)
(* C17: a run blocked in a long external call does not block ingress:      *)
(* while a run waits on the reasoning component, the listener can still    *)
(* hand a new chat event to a handler, a handler can still accept and      *)
(* append its message, and a new /process request can still start its run. *)
(***************************************************************************)
C17_IngressNotBlocked ==
    RunWaits =>
        /\ listener = "syncing" =>
              \A t \in Tasks :
                  tasks[t].pc = "free" =>
                      ENABLED message_callback(t, RoomId, Alice, clock * 1000,
                                               delivered + 1)
        /\ \A t \in Tasks :
              (tasks[t].pc = "scheduled" /\ Accepted(t)) =>
                  ENABLED (/\ handle_message(t)
                           /\ Len(accepted') = Len(accepted) + 1)
        /\ \A r \in Reqs :
              reqs[r].pc = "idle" => ENABLED process_text(r, TRUE)

\* a /process run that started on an empty buffer waits for ever on the
\* reasoning component, and a chat message has been accepted and appended
C17_Witness ==
    \E t \in Tasks, r \in Reqs :
        /\ reqs[r].kind = "process" /\ reqs[r].pc = "blocked"
        /\ bot_configured /\ reqs[r].conversation_context.kind = NoRecent
        /\ tasks[t].pc = "entering" /\ tasks[t].appended
        /\ Len(conversation_history) = 1

(***************************************************************************)
(* C18: a connection to the memory store (or the auxiliary provider)       *)
(* acquired by a run stays open until that same run releases it: with two  *)
(* overlapping runs on the shared server objects, the exit of one never    *)
(* closes the connection the other still uses.                             *)
(***************************************************************************)
C18_ConnectionHeldUntilRelease ==
    /\ \A r \in Reqs :
          /\ reqs[r].pc \in {"enter_misc", "running", "blocked"}
                => sessions.mcp_server_memory
          /\ reqs[r].pc \in {"running", "blocked"}
                => sessions.mcp_server_misc
    /\ \A t \in Tasks :
          tasks[t].pc \in {"running", "blocked"} => sessions.mcp_memory

(***************************************************************************)
(* C19: for every accepted chat message m that is not self-authored, the   *)
(* context built for m's run has m as its last entry, under every          *)
(* interleaving of handler tasks: no other message is appended between     *)
(* m's append and the construction of m's context.                         *)
(***************************************************************************)
C19_OwnMessageLast ==
    \A t \in Tasks :
        (Handled(t) /\ Accepted(t) /\ ~SelfAuthored(t))
        => LET lines == tasks[t].history_text.lines
           IN  /\ tasks[t].history_text.kind = "history+please respond"
               /\ Len(lines) >= 1
               /\ lines[Len(lines)].message = tasks[t].body
               /\ \A i \in 1..(Len(lines) - 1) :
                     lines[i].message # tasks[t].body

\* two handler tasks are in their runs together; the context of the later
\* one holds the earlier message, then its own
C19_Witness ==
    \E t, u \in Tasks :
        /\ t # u
        /\ tasks[t].pc \in {"entering", "running"}
        /\ tasks[u].pc \in {"entering", "running"}
        /\ Messages(tasks[u].history_text.lines)
              = <<tasks[t].body, tasks[u].body>>

(***************************************************************************)
(* C20: each inbound chat event causes at most one successfully sent       *)
(* outbound message of the chat handler (the reply or the apology, never   *)
(* both), and an event that is filtered out, self-authored, or handled     *)
(* while the memory connection is marked unavailable causes none.          *)
(***************************************************************************)
C20_AtMostOneOutbound ==
    \A t \in Tasks :
        /\ Len(tasks[t].sent) <= 1
        /\ (Handled(t) /\ (\/ ~Accepted(t)
                            \/ SelfAuthored(t)
                            \/ ~mcp_available))
              => tasks[t].sent = << >>

\* one event was filtered out and caused no message; the handler of another
\* failed to send its reply and sent the apology alone
C20_Witness ==
    \E t, u \in Tasks :
        /\ Returned(t) /\ ~Accepted(t) /\ ~SelfAuthored(t)
        /\ tasks[t].sent = << >>
        /\ Returned(u) /\ tasks[u].ai_response = FinalOutput
        /\ tasks[u].sent = <<ApologyText>>

====
